---- MODULE Spec2Model ----
(***************************************************************************)
(* A model of odl.space.domain.IntervalProd: an n-dimensional box held as  *)
(* two numpy arrays (_begin, _end) plus the cached index arrays _ideg and  *)
(* _inondeg.  numpy arrays are objects with identity, so the model keeps a *)
(* heap of arrays and lets boxes refer to them by id: aliasing and         *)
(* in-place writes are then visible.  Axis indices are 0-based as in the   *)
(* code; TLA+ sequences are 1-based, hence At(s, i) == s[i + 1].           *)
(***************************************************************************)
EXTENDS Integers, Sequences, FiniteSets, TLC

\* ------------------------------------------------------------------ bounds
\* Interval end points are drawn from 0..MaxVal.
MaxVal == 2
\* The box built first has at most MaxDim axes.
MaxDim == 2
\* At most MaxBoxes IntervalProd objects are built in one run.
MaxBoxes == 3

Vals == 0..MaxVal

\* float64 has the value nan, which every comparison with <=, <, > and ==
\* answers False for.  It is written here as a number outside every range
\* of the model; only le/gt read it.
NaN == -(MaxVal + 2)
le(x, y) == x # NaN /\ y # NaN /\ x <= y
gt(x, y) == x # NaN /\ y # NaN /\ x > y

\* Sequences over S of length at most n.
SeqUpTo(S, n) == UNION {[1..k -> S] : k \in 0..n}

\* Array-like arguments: a float stands for a length-1 array (np.atleast_1d).
Scalar(x) == [kind |-> "scalar", val |-> <<x>>]
Arr(s) == [kind |-> "array", val |-> s]
atleast_1d(a) == a.val

\* ------------------------------------------------------------ numpy helpers
At(s, i) == s[i + 1]

IndexSeq(n) == [i \in 1..n |-> i - 1]

\* np.where(mask)[0]: the indices, ascending, at which mask holds.
where(mask) == SelectSeq(IndexSeq(Len(mask)), LAMBDA i : At(mask, i))

\* a[idx] for an index array idx (fancy indexing: a fresh array).
take(a, idx) == [j \in 1..Len(idx) |-> At(a, idx[j])]

Abs(x) == IF x < 0 THEN -x ELSE x

RECURSIVE prod(_)
prod(s) == IF Len(s) = 0 THEN 1 ELSE s[1] * prod(Tail(s))

RECURSIVE sum(_)
sum(s) == IF Len(s) = 0 THEN 0 ELSE s[1] + sum(Tail(s))

RECURSIVE maxOf(_)
maxOf(s) == IF Len(s) = 1 THEN s[1]
            ELSE LET m == maxOf(Tail(s)) IN IF s[1] > m THEN s[1] ELSE m

RECURSIVE minOf(_)
minOf(s) == IF Len(s) = 1 THEN s[1]
            ELSE LET m == minOf(Tail(s)) IN IF s[1] < m THEN s[1] ELSE m

\* Extended reals returned by measure: a finite number or np.inf.
Fin(n) == [inf |-> FALSE, v |-> n]
PosInf == [inf |-> TRUE, v |-> 0]

\* -------------------------------------------------------------------- state
VARIABLES
    heap,    \* the numpy arrays created so far, by id: heap[id] is the data
    boxes,   \* the IntervalProd objects built so far, in order of creation
    origin,  \* history: origin[k] tells which call built boxes[k]
    held,    \* ids of the arrays the caller holds a writable reference to
    ret      \* the last call: its operation, arguments and outcome

vars == <<heap, boxes, origin, held, ret>>

\* A new array object holding data: the heap after, and the new id.
alloc(h, data) == [h |-> Append(h, data), id |-> Len(h) + 1]

\* np.atleast_1d(x) for a list or a float x: a new array.
asarray(h, x) == alloc(h, atleast_1d(x))

\* a[idx] = values, in place (numpy assigns left to right, so the last
\* write to a repeated index wins).
RECURSIVE setItems(_, _, _)
setItems(a, idx, values) ==
    IF Len(idx) = 0 THEN a
    ELSE setItems([a EXCEPT ![idx[1] + 1] = values[1]], Tail(idx), Tail(values))

\* An ndarray.copy() that hands back the array itself.
copy_alias(h, id) == [h |-> h, id |-> id]

\* ndarray.copy(): a new array object with the same numbers.
copy(h, id) == alloc(h, h[id])

\* ndarray.astype(np.float64): a new array object with the same numbers.
astype_float64(h, id) == alloc(h, h[id])

\* ---------------------------------------------------------------- __init__
\* An __init__ that asks for begin < end.
initExc_strict(b, e) ==
    IF Len(b) # Len(e) THEN "ValueError: lengths do not match"
    ELSE IF ~(\A i \in 1..Len(b) : b[i] # NaN /\ e[i] # NaN /\ b[i] < e[i])
    THEN "ValueError: begin exceeds end"
    ELSE "none"

\* The exception __init__ raises for the arrays b, e, or "none".
initExc(b, e) ==
    IF Len(b) # Len(e) THEN "ValueError: lengths do not match"
    ELSE IF ~(\A i \in 1..Len(b) : le(b[i], e[i]))
    THEN "ValueError: begin exceeds end"
    ELSE "none"

\* IntervalProd(begin, end) for the arrays with ids bId, eId on heap h: the
\* exception raised, the heap after and the object built.  When it raises,
\* nothing it allocated survives.
IntervalProd(h, bId, eId) ==
    LET b == astype_float64(h, bId)
        e == astype_float64(b.h, eId)
        exc == initExc(e.h[b.id], e.h[e.id])
        mask == [i \in 1..Len(e.h[b.id]) |-> e.h[b.id][i] = e.h[e.id][i]]
    IN IF exc # "none" THEN [exc |-> exc, h |-> h, box |-> <<>>]
       ELSE [exc |-> exc,
             h |-> e.h,
             box |-> [begin |-> b.id,
                      end |-> e.id,
                      ideg |-> where(mask),
                      inondeg |-> where([i \in DOMAIN mask |-> ~mask[i]])]]

\* ------------------------------------------------------------- properties
begin(h, box) == h[box.begin]
end(h, box) == h[box.end]
dim(h, box) == Len(h[box.begin])
truedim(box) == Len(box.inondeg)
size(h, box) == [i \in 1..Len(end(h, box)) |-> end(h, box)[i] - begin(h, box)[i]]

\* ----------------------------------------------------------------- measure
NoDim == [given |-> FALSE, v |-> 0]
Dim(n) == [given |-> TRUE, v |-> n]

\* A measure that multiplies the sizes of all axes.
measureAt_allAxes(h, box, d) ==
    IF d < truedim(box) THEN PosInf
    ELSE IF d > truedim(box) THEN Fin(0)
    ELSE Fin(prod(size(h, box)))

measureAt(h, box, d) ==
    IF d < truedim(box) THEN PosInf
    ELSE IF d > truedim(box) THEN Fin(0)
    ELSE Fin(prod(take(size(h, box), box.inondeg)))

measure(h, box, d) ==
    IF truedim(box) = 0 THEN Fin(0)
    ELSE IF ~d.given THEN measureAt(h, box, truedim(box))
    ELSE measureAt(h, box, d.v)

volume(h, box) == measure(h, box, Dim(dim(h, box)))

\* --------------------------------------------------------------------- Init
\* The state after IntervalProd(b, e) succeeded on two lists b, e, which
\* np.atleast_1d made arrays of.
Init ==
    \E b, e \in SeqUpTo(Vals, MaxDim) :
        LET h0 == alloc(alloc(<<>>, b).h, e).h
            new == IntervalProd(h0, 1, 2)
        IN /\ new.exc = "none"
           /\ heap = new.h
           /\ boxes = <<new.box>>
           /\ origin = <<[op |-> "init", recv |-> 0, other |-> 0]>>
           /\ held = {}
           /\ ret = [op |-> "init", exc |-> "none", res |-> 1]

\* The state before any IntervalProd is built.
Start ==
    /\ heap = <<>>
    /\ boxes = <<>>
    /\ origin = <<>>
    /\ held = {}
    /\ ret = [op |-> "start", exc |-> "none", res |-> 0]

Slots == DOMAIN boxes

\* The runs are cut when MaxBoxes objects exist: no further one is built.
Room == Len(boxes) < MaxBoxes

\* Whether the last call built a box or wrote to an array.  A call that did
\* neither (a query, a call that raised) leaves heap, boxes, origin and held
\* as they were, so whatever may follow it may follow the state before it:
\* the specifications take calls from the states whose last call changed
\* something.
Effective ==
    \/ ret.op \in {"init", "begin", "end", "write"}
    \/ ret.op \in {"collapse", "squeeze", "insert"} /\ ret.exc = "none"

\* What a call that raised leaves behind.
Raised(op, k, args, exc) ==
    /\ ret' = [op |-> op, recv |-> k, exc |-> exc, res |-> 0] @@ args
    /\ UNCHANGED <<heap, boxes, origin, held>>

\* What a call that returned the new box new.box leaves behind; passed are
\* the arrays of the caller handed to the call.
Returned(op, k, args, from, new, passed) ==
    /\ heap' = new.h
    /\ boxes' = Append(boxes, new.box)
    /\ origin' = Append(origin, from)
    /\ held' = held \cup passed
    /\ ret' = [op |-> op, recv |-> k, exc |-> "none", res |-> Len(boxes) + 1]
               @@ args

\* ------------------------------------------------------- IntervalProd(b, e)
\* IntervalProd(b, e) called with two array-likes: an array argument is an
\* array of the caller, a float or a list is made an array by atleast_1d.
New(b, e) ==
    LET mb == asarray(heap, b)
        me == asarray(mb.h, e)
        new == IntervalProd(me.h, mb.id, me.id)
        args == [b |-> b, e |-> e]
    IN IF new.exc # "none" THEN Raised("new", 0, args, new.exc)
       ELSE Returned("new", 0, args,
                     [op |-> "init", recv |-> 0, other |-> 0], new,
                     (IF b.kind = "array" THEN {mb.id} ELSE {})
                     \cup (IF e.kind = "array" THEN {me.id} ELSE {}))

\* ---------------------------------------------------------------- collapse
\* A collapse that does not check the values against end.
collapseExc_noUpper(h, self, indcs, values) ==
    IF Len(indcs) # Len(values) THEN "ValueError: lengths do not match"
    ELSE IF \/ \E j \in 1..Len(indcs) : indcs[j] < 0
            \/ \E j \in 1..Len(indcs) : indcs[j] >= dim(h, self)
    THEN "IndexError: out of range"
    ELSE IF \E j \in 1..Len(indcs) : values[j] < At(begin(h, self), indcs[j])
    THEN "ValueError: not within interval boundaries"
    ELSE "none"

\* The exception collapse raises before it builds anything, or "none".
collapseExc(h, self, indcs, values) ==
    IF Len(indcs) # Len(values) THEN "ValueError: lengths do not match"
    ELSE IF \/ \E j \in 1..Len(indcs) : indcs[j] < 0
            \/ \E j \in 1..Len(indcs) : indcs[j] >= dim(h, self)
    THEN "IndexError: out of range"
    ELSE IF \E j \in 1..Len(indcs) : values[j] < At(begin(h, self), indcs[j])
    THEN "ValueError: not within interval boundaries"
    ELSE IF \E j \in 1..Len(indcs) : values[j] > At(end(h, self), indcs[j])
    THEN "ValueError: not within interval boundaries"
    ELSE "none"

\* b_new, e_new and the box built from them.
collapseNew(h, self, indcs, values) ==
    LET b_new == copy(h, self.begin)
        h1 == [b_new.h EXCEPT ![b_new.id] = setItems(@, indcs, values)]
        e_new == copy(h1, self.end)
        h2 == [e_new.h EXCEPT ![e_new.id] = setItems(@, indcs, values)]
    IN IntervalProd(h2, b_new.id, e_new.id)

\* collapse(indcs, values); an array argument is an array of the caller, a
\* scalar argument a number.
Collapse(k, indcs, values) ==
    LET self == boxes[k]
        args == [indcs |-> indcs, values |-> values]
        mine == IF values.kind = "array" THEN asarray(heap, values)
                ELSE [h |-> heap, id |-> 0]
        exc == collapseExc(heap, self, atleast_1d(indcs), atleast_1d(values))
        new == collapseNew(mine.h, self, atleast_1d(indcs), atleast_1d(values))
    IN IF exc # "none" THEN Raised("collapse", k, args, exc)
       ELSE IF new.exc # "none" THEN Raised("collapse", k, args, new.exc)
       ELSE Returned("collapse", k, args @@ [passed |-> mine.id],
                     [op |-> "collapse", recv |-> k, other |-> 0], new,
                     {mine.id} \ {0})

\* ---------------------------------------------------------------- squeeze
\* A squeeze that keeps the degenerate axes instead.
squeezeAxes_deg(box) == box.ideg

\* The axes squeeze keeps.
squeezeAxes(box) == box.inondeg

\* self._begin[idx]: indexing with an index array makes a new array.
takeArr(h, id, idx) == alloc(h, take(h[id], idx))

squeezeNew(h, self) ==
    LET b_new == takeArr(h, self.begin, squeezeAxes(self))
        e_new == takeArr(b_new.h, self.end, squeezeAxes(self))
    IN IntervalProd(e_new.h, b_new.id, e_new.id)

Squeeze(k) ==
    LET new == squeezeNew(heap, boxes[k])
    IN IF new.exc # "none" THEN Raised("squeeze", k, <<>>, new.exc)
       ELSE Returned("squeeze", k, <<>>,
                     [op |-> "squeeze", recv |-> k, other |-> 0], new, {})

\* ------------------------------------------------------------------ insert
\* The arrays of insert's result: self's axes before index, other's axes,
\* self's axes from index on.
insertData_dropTail(a, o, index) ==
    SubSeq(a, 1, index) \o o \o
    (IF index + 1 < Len(a) THEN SubSeq(a, index + 1, Len(a)) ELSE <<>>)

\* An insert that puts other's axes after all of self's.
insertData_otherLast(a, o, index) == a \o o

insertData(a, o, index) ==
    SubSeq(a, 1, index) \o o \o
    (IF index < Len(a) THEN SubSeq(a, index + 1, Len(a)) ELSE <<>>)

\* new_beg, new_end and the box built from them; other is an IntervalProd.
insertNew(h, self, other, index) ==
    LET new_beg == alloc(h, insertData(begin(h, self), begin(h, other), index))
        new_end == alloc(new_beg.h,
                         insertData(end(h, self), end(h, other), index))
    IN IntervalProd(new_end.h, new_beg.id, new_end.id)

\* insert(other, index) for other the box boxes[j].
InsertBox(k, j, index) ==
    LET self == boxes[k]
        args == [other |-> j, index |-> index, arr |-> <<>>, passed |-> 0]
        new == insertNew(heap, self, boxes[j], index)
    IN IF ~(0 <= index /\ index <= dim(heap, self))
       THEN Raised("insert", k, args, "IndexError: out of range")
       ELSE IF new.exc # "none" THEN Raised("insert", k, args, new.exc)
       ELSE Returned("insert", k, args,
                     [op |-> "insert", recv |-> k, other |-> j], new, {})

\* insert(other, index) for other a float or an array of the caller: it is
\* made the box IntervalProd(other, other) first.
InsertArray(k, other, index) ==
    LET self == boxes[k]
        mine == asarray(heap, other)
        tmp == IntervalProd(mine.h, mine.id, mine.id)
        new == insertNew(tmp.h, self, tmp.box, index)
        passed == IF other.kind = "array" THEN mine.id ELSE 0
        args == [other |-> 0, index |-> index, arr |-> atleast_1d(other),
                 passed |-> passed]
    IN IF ~(0 <= index /\ index <= dim(heap, self))
       THEN Raised("insert", k, args, "IndexError: out of range")
       ELSE IF tmp.exc # "none" THEN Raised("insert", k, args, tmp.exc)
       ELSE IF new.exc # "none" THEN Raised("insert", k, args, new.exc)
       ELSE Returned("insert", k, args,
                     [op |-> "insert", recv |-> k, other |-> 0], new,
                     {passed} \ {0})

\* ------------------------------------------------------- begin and end
\* The properties begin and end return self._begin and self._end: the
\* caller now holds the array the box keeps.
Begin(k) ==
    /\ held' = held \cup {boxes[k].begin}
    /\ ret' = [op |-> "begin", recv |-> k, exc |-> "none", res |-> 0,
               out |-> boxes[k].begin]
    /\ UNCHANGED <<heap, boxes, origin>>

End(k) ==
    /\ held' = held \cup {boxes[k].end}
    /\ ret' = [op |-> "end", recv |-> k, exc |-> "none", res |-> 0,
               out |-> boxes[k].end]
    /\ UNCHANGED <<heap, boxes, origin>>

\* The caller's a[i] = v on an array a it holds.
Write(id, i, v) ==
    /\ id \in held
    /\ i \in 0..(Len(heap[id]) - 1)
    /\ heap' = [heap EXCEPT ![id] = setItems(@, <<i>>, <<v>>)]
    /\ ret' = [op |-> "write", recv |-> 0, exc |-> "none", res |-> 0,
               id |-> id, i |-> i, v |-> v]
    /\ UNCHANGED <<boxes, origin, held>>

\* ------------------------------------------------------- measure and volume
DimArgs == {NoDim} \cup {Dim(n) : n \in -1..(MaxDim + 1)}

Measure(k, d) ==
    /\ ret' = [op |-> "measure", recv |-> k, d |-> d, exc |-> "none", res |-> 0,
               out |-> measure(heap, boxes[k], d)]
    /\ UNCHANGED <<heap, boxes, origin, held>>

Volume(k) ==
    /\ ret' = [op |-> "volume", recv |-> k, exc |-> "none", res |-> 0,
               out |-> volume(heap, boxes[k])]
    /\ UNCHANGED <<heap, boxes, origin, held>>

\* -------------------------------------------------------------------- dist
\* The norm orders modelled are those whose norm of an integer vector is an
\* integer: 1, inf and -inf of numpy.linalg.norm.
Orders == {"1", "inf", "-inf"}

\* numpy.linalg.norm(x, ord) for a non-empty vector x.
norm(x, ord) ==
    LET a == [i \in 1..Len(x) |-> Abs(x[i])]
    IN IF ord = "inf" THEN maxOf(a)
       ELSE IF ord = "-inf" THEN minOf(a)
       ELSE sum(a)

\* dist(point, ord): [exc, out].
dist(h, box, point, ord) ==
    LET pt == atleast_1d(point)
        b == begin(h, box)
        e == end(h, box)
    IN IF Len(pt) # dim(h, box) THEN [exc |-> "ValueError", out |-> 0]
       ELSE LET i_larger == where([i \in 1..Len(pt) |-> pt[i] > e[i]])
                i_smaller == where([i \in 1..Len(pt) |-> pt[i] < b[i]])
            IN IF Len(i_larger) = 0 /\ Len(i_smaller) = 0
               THEN [exc |-> "none", out |-> 0]
               ELSE LET proj == take(pt, i_larger) \o take(pt, i_smaller)
                        border == take(e, i_larger) \o take(b, i_smaller)
                        diff == [i \in 1..Len(proj) |-> proj[i] - border[i]]
                    IN [exc |-> "none", out |-> norm(diff, ord)]

\* ---------------------------------------------------------------- contains
\* RealNumbers().contains(x): whether the scalar x is a real number.  The
\* point argument carries the answer for its element type in its field real.
RealNumbers_contains(point) == point.real

\* contains(point, tol): [exc, out].
contains(h, box, point, tol) ==
    LET pt == atleast_1d(point)
    IN IF Len(pt) # dim(h, box) THEN [exc |-> "none", out |-> FALSE]
       \* point[0] on an empty array
       ELSE IF Len(pt) = 0 THEN [exc |-> "IndexError", out |-> FALSE]
       ELSE IF ~RealNumbers_contains(point) THEN [exc |-> "none", out |-> FALSE]
       ELSE IF dist(h, box, point, "inf").out > tol THEN [exc |-> "none", out |-> FALSE]
       ELSE [exc |-> "none", out |-> TRUE]

\* ------------------------------------------------------------------ equals
\* np.allclose(a, b, atol=tol, rtol=0.0) on 1-d arrays: [exc, out].  numpy
\* broadcasts a length-1 array against the other one and raises ValueError
\* for any other pair of different lengths.
allclose(a, b, tol) ==
    IF Len(a) = Len(b)
    THEN [exc |-> "none", out |-> \A i \in 1..Len(a) : Abs(a[i] - b[i]) <= tol]
    ELSE IF Len(a) = 1
    THEN [exc |-> "none", out |-> \A i \in 1..Len(b) : Abs(a[1] - b[i]) <= tol]
    ELSE IF Len(b) = 1
    THEN [exc |-> "none", out |-> \A i \in 1..Len(a) : Abs(a[i] - b[1]) <= tol]
    ELSE [exc |-> "ValueError", out |-> FALSE]

\* self.equals(other, tol) for another IntervalProd: [exc, out].
equals(h, self, other, tol) ==
    LET bb == allclose(begin(h, self), begin(h, other), tol)
    IN IF bb.exc # "none" \/ ~bb.out THEN bb
       ELSE allclose(end(h, self), end(h, other), tol)

\* -------------------------------------------------------- uniform_sampling
\* A quotient of two numbers, kept as written: float64 division by zero
\* gives inf or nan (with a RuntimeWarning), it does not raise.
Quot(n, d) == [num |-> n, den |-> d]

\* np.isinf(x).  The arrays of the model hold numbers of Vals only.
isinf(x) == FALSE

\* The property midpoint: a float for dim 1, otherwise an array.
midpoint(h, box) ==
    LET b == begin(h, box)
        e == end(h, box)
        midp == [i \in 1..Len(b) |->
                    IF \E j \in 1..Len(box.ideg) : box.ideg[j] = i - 1
                    THEN Quot(b[i], 1) ELSE Quot(e[i] + b[i], 2)]
    IN IF dim(h, box) = 1 THEN Scalar(midp[1]) ELSE Arr(midp)

\* The exception uniform_sampling raises for the int64 array num_nodes, or
\* "none".
samplingExc(h, self, num_nodes) ==
    IF \/ \E i \in 1..dim(h, self) : isinf(begin(h, self)[i])
       \/ \E i \in 1..dim(h, self) : isinf(end(h, self)[i])
    THEN "ValueError: infinite domain"
    ELSE IF Len(num_nodes) # dim(h, self)
    THEN "ValueError: shape of num_nodes"
    ELSE IF \E i \in 1..Len(num_nodes) : num_nodes[i] <= 0
    THEN "ValueError: num_nodes not positive"
    ELSE IF \E j \in 1..Len(self.ideg) : At(num_nodes, self.ideg[j]) > 1
    THEN "ValueError: degenerate axis with more than one node"
    ELSE "none"

\* stride, per axis, as the quotient the code forms.
stride(h, self, num_nodes, as_midp) ==
    [i \in 1..Len(num_nodes) |->
        IF as_midp THEN Quot(size(h, self)[i], num_nodes[i])
        ELSE Quot(size(h, self)[i], num_nodes[i] - 1)]

\* uniform_sampling(num_nodes, as_midp); out holds the arguments
\* RegularGrid is called with.
UniformSampling(k, num_nodes, as_midp) ==
    LET self == boxes[k]
        nn == atleast_1d(num_nodes)
        exc == samplingExc(heap, self, nn)
    IN /\ ret' = [op |-> "uniform_sampling", recv |-> k, res |-> 0,
                  num_nodes |-> num_nodes, as_midp |-> as_midp, exc |-> exc,
                  out |-> IF exc # "none" THEN <<>>
                          ELSE <<nn, midpoint(heap, self),
                                 stride(heap, self, nn, as_midp)>>]
       /\ UNCHANGED <<heap, boxes, origin, held>>

\* --------------------------------------------------------- query arguments
Tols == 0..1
PointVals == -1..(MaxVal + 1)

\* Points as the caller passes them: an array or a float, of real or
\* non-real element type.
Points(n) ==
    {[kind |-> "array", val |-> s, real |-> r] :
        s \in SeqUpTo(PointVals, n), r \in BOOLEAN}
    \cup {[kind |-> "scalar", val |-> <<x>>, real |-> TRUE] : x \in PointVals}

\* An array-like that is one of the box's own arrays (rbox.begin, rbox.end).
OwnArray(id) == [kind |-> "array", val |-> heap[id], real |-> TRUE]

Contains(k, point, tol) ==
    /\ ret' = [op |-> "contains", recv |-> k, res |-> 0, point |-> point, tol |-> tol]
               @@ contains(heap, boxes[k], point, tol)
    /\ UNCHANGED <<heap, boxes, origin, held>>

Dist(k, point, ord) ==
    /\ ret' = [op |-> "dist", recv |-> k, res |-> 0, point |-> point, ord |-> ord]
               @@ dist(heap, boxes[k], point, ord)
    /\ UNCHANGED <<heap, boxes, origin, held>>

Equals(k, j, tol) ==
    /\ ret' = [op |-> "equals", recv |-> k, res |-> 0, other |-> j, tol |-> tol]
               @@ equals(heap, boxes[k], boxes[j], tol)
    /\ UNCHANGED <<heap, boxes, origin, held>>

\* equals(other, tol) for other that is not an IntervalProd (an array or a
\* float): False.
EqualsArray(k, other, tol) ==
    /\ ret' = [op |-> "equals", recv |-> k, res |-> 0, other |-> 0, tol |-> tol,
               arr |-> other, exc |-> "none", out |-> FALSE]
    /\ UNCHANGED <<heap, boxes, origin, held>>

\* ----------------------------------------------------------- specifications
\* Arguments of collapse and insert.
IndexVals == -1..(MaxDim + 1)
ArrayLike(S, lens) ==
    {Scalar(x) : x \in S} \cup {Arr(s) : s \in UNION {[1..n -> S] : n \in lens}}

\* Every call of the constructor is a call in the state before any box
\* exists or after the first one was built.
Floats == Vals \cup {NaN}

NextNew ==
    ret.op \in {"start", "init"} /\
        \E b, e \in ArrayLike(Floats, 0..MaxDim) : New(b, e)

SpecNew == Start /\ [][NextNew]_vars

\* uniform_sampling is a function of its receiver and its arguments: the
\* calls on the first box are all the calls there are.
NodeVals == -1..MaxVal

NextSampling ==
    ret.op = "init" /\
        \E num_nodes \in ArrayLike(NodeVals, 0..MaxDim), as_midp \in BOOLEAN :
            UniformSampling(1, num_nodes, as_midp)

SpecSampling == Init /\ [][NextSampling]_vars

\* equals between the first box, the boxes one transform makes of it, and
\* objects that are no boxes.
NextEquals ==
    \/ ret.op = "init" /\ Squeeze(1)
    \/ ret.op = "init" /\
          \E indcs \in ArrayLike(IndexVals, 1..2), values \in ArrayLike(Vals, 0..2) :
              Collapse(1, indcs, values)
    \/ ret.op = "init" /\
          \E index \in IndexVals, other \in ArrayLike(Vals, 0..2) :
              InsertArray(1, other, index)
    \/ Effective /\ \E k, j \in Slots, tol \in Tols : Equals(k, j, tol)
    \/ Effective /\ \E k \in Slots, tol \in Tols :
          \E other \in ArrayLike(Vals, 0..2) : EqualsArray(k, other, tol)

SpecEquals == Init /\ [][NextEquals]_vars

NextMeasure ==
    \/ Effective /\ Room /\ \E k \in Slots : Squeeze(k)
    \/ Effective /\ \E k \in Slots, d \in DimArgs : Measure(k, d)
    \/ Effective /\ \E k \in Slots : Volume(k)

SpecMeasure == Init /\ [][NextMeasure]_vars

NextPoint ==
    \/ Effective /\ Room /\ \E k \in Slots : Squeeze(k)
    \/ Effective /\ \E k \in Slots, tol \in Tols :
          \E point \in Points(dim(heap, boxes[k]))
                        \cup {OwnArray(boxes[k].begin), OwnArray(boxes[k].end)} :
              Contains(k, point, tol)
    \/ Effective /\ \E k \in Slots, ord \in Orders :
          \E point \in Points(dim(heap, boxes[k])) : Dist(k, point, ord)

SpecPoint == Init /\ [][NextPoint]_vars

\* B.insert(D, index).squeeze().equals(B) for the first box B and for D an
\* array, a float, B itself or a box collapsed from B.
NextInsert ==
    \/ ret.op = "init" /\
          \E indcs \in ArrayLike(IndexVals, 1..2), values \in ArrayLike(Vals, 0..2) :
              Collapse(1, indcs, values)
    \/ ret.op \in {"init", "collapse"} /\ ret.exc = "none" /\
          \E j \in Slots, index \in IndexVals : InsertBox(1, j, index)
    \/ ret.op = "init" /\
          \E index \in IndexVals, other \in ArrayLike(Vals, 0..2) :
              InsertArray(1, other, index)
    \/ ret.op = "insert" /\ ret.exc = "none" /\ Squeeze(ret.res)
    \/ ret.op = "squeeze" /\ \E tol \in Tols : Equals(ret.res, 1, tol)

SpecInsert == Init /\ [][NextInsert]_vars

\* collapse is a function of its receiver and its arguments, and every box
\* of at most MaxDim axes over Vals is the first box of some run: the calls
\* on the first box are all the calls there are.
NextCollapse ==
    ret.op = "init" /\
        \E indcs \in ArrayLike(IndexVals, 1..2), values \in ArrayLike(Vals, 0..2) :
            Collapse(1, indcs, values)

SpecCollapse == Init /\ [][NextCollapse]_vars

NextTransform ==
    \/ Effective /\ Room /\ \E k \in Slots : Squeeze(k)
    \/ Effective /\ Room /\ \E k \in Slots :
          \E indcs \in ArrayLike(IndexVals, 1..2), values \in ArrayLike(Vals, 0..2) :
              Collapse(k, indcs, values)
    \/ Effective /\ Room /\ \E k, j \in Slots, index \in IndexVals :
          InsertBox(k, j, index)
    \/ Effective /\ Room /\ \E k \in Slots, index \in IndexVals :
          \E other \in ArrayLike(Vals, 0..2) : InsertArray(k, other, index)

SpecTransform == Init /\ [][NextTransform]_vars

NextAlias ==
    \/ \E k \in Slots : Begin(k)
    \/ \E k \in Slots : End(k)
    \/ \E id \in held, i \in 0..(MaxDim - 1), v \in Vals : Write(id, i, v)

SpecAlias == Init /\ [][NextAlias]_vars

Next ==
    \/ NextNew
    \/ NextEquals
    \/ NextSampling
    \/ NextMeasure
    \/ NextPoint
    \/ NextInsert
    \/ NextTransform
    \/ NextAlias

Spec == Init /\ [][Next]_vars

\* ------------------------------------------------------------------- claims
\* What the claims say, computed from the arrays alone (not from the cached
\* index arrays).
nondegCount(b, e) == Cardinality({i \in 1..Len(b) : b[i] # e[i]})
hasDegenerate(b, e) == \E i \in 1..Len(b) : b[i] = e[i]

RECURSIVE nondegProduct(_, _, _)
nondegProduct(b, e, n) ==
    IF n = 0 THEN 1
    ELSE (IF b[n] # e[n] THEN e[n] - b[n] ELSE 1) * nondegProduct(b, e, n - 1)

\* C1: measure(d) is 0.0 when truedim is 0; otherwise +infinity for
\* d < truedim, 0.0 for d > truedim and the product of the sizes of the
\* non-degenerate axes for d = truedim; an omitted d stands for truedim.
C1_MeasureByCases ==
    ret.op = "measure" =>
        LET b == begin(heap, boxes[ret.recv])
            e == end(heap, boxes[ret.recv])
            td == nondegCount(b, e)
            d == IF ret.d.given THEN ret.d.v ELSE td
        IN ret.out = IF td = 0 THEN Fin(0)
                     ELSE IF d < td THEN PosInf
                     ELSE IF d > td THEN Fin(0)
                     ELSE Fin(nondegProduct(b, e, Len(b)))

\* C1 witness: measure(truedim) of a box with a degenerate axis and a
\* non-degenerate axis longer than 1.
C1_Witness ==
    /\ ret.op = "measure"
    /\ ret.d.given
    /\ LET b == begin(heap, boxes[ret.recv])
           e == end(heap, boxes[ret.recv])
       IN /\ hasDegenerate(b, e)
          /\ ret.d.v = nondegCount(b, e)
          /\ ret.d.v >= 1
    /\ ~ret.out.inf
    /\ ret.out.v >= 2

\* C2: volume is measure(dim), and the volume of squeeze() is the measure()
\* of the box that was squeezed.
C2_VolumeIsMeasure ==
    ret.op = "volume" =>
        LET self == boxes[ret.recv]
            from == origin[ret.recv]
        IN /\ ret.out = measure(heap, self, Dim(Len(begin(heap, self))))
           /\ from.op = "squeeze" => ret.out = measure(heap, boxes[from.recv], NoDim)

\* C2 witness: the volume of the squeeze of a box that has a degenerate axis
\* and a positive measure other than 1.
C2_Witness ==
    /\ ret.op = "volume"
    /\ origin[ret.recv].op = "squeeze"
    /\ LET parent == boxes[origin[ret.recv].recv]
       IN hasDegenerate(begin(heap, parent), end(heap, parent))
    /\ ret.out.v >= 2

\* C4: contains(begin, tol=0) and contains(end, tol=0) are true for every
\* box, of any dimension.
C4_BoundaryContained ==
    (/\ ret.op = "contains"
     /\ ret.tol = 0
     /\ ret.point.real
     /\ ret.point.kind = "array"
     /\ \/ ret.point.val = begin(heap, boxes[ret.recv])
        \/ ret.point.val = end(heap, boxes[ret.recv]))
    => (ret.exc = "none" /\ ret.out = TRUE)

\* C5: for a real point of length dim, dist(point, ord) is 0 exactly when
\* contains(point, tol=0) is true.
C5_DistZeroIffContained ==
    (/\ ret.op = "dist"
     /\ ret.point.real
     /\ Len(atleast_1d(ret.point)) = dim(heap, boxes[ret.recv]))
    => LET c == contains(heap, boxes[ret.recv], ret.point, 0)
       IN /\ ret.exc = "none"
          /\ c.exc = "none"
          /\ (ret.out = 0) <=> (c.out = TRUE)

\* The box an equals call compares is insert(D, i).squeeze() for the other
\* box of the call and a degenerate D.
InsertedThenSqueezed ==
    /\ ret.op = "equals"
    /\ ret.tol = 0
    /\ origin[ret.recv].op = "squeeze"
    /\ LET t == origin[ret.recv].recv
       IN /\ origin[t].op = "insert"
          /\ origin[t].recv = ret.other
          /\ origin[t].other # 0 => truedim(boxes[origin[t].other]) = 0

\* C3 as claimed: for every box B, degenerate D and index i,
\* B.insert(D, i).squeeze().equals(B) is true.
C3_InsertSqueezeRecovers ==
    InsertedThenSqueezed => (ret.exc = "none" /\ ret.out = TRUE)

\* C3 as amended: for every box B without a degenerate axis, degenerate D and
\* index i, B.insert(D, i).squeeze().equals(B) is true.
C3_InsertSqueezeRecoversNondegenerate ==
    (/\ InsertedThenSqueezed
     /\ ~hasDegenerate(begin(heap, boxes[ret.other]), end(heap, boxes[ret.other])))
    => (ret.exc = "none" /\ ret.out = TRUE)

\* C3 witness: a box of two non-degenerate axes, a degenerate axis inserted
\* between them, squeezed and compared.
C3_Witness ==
    /\ InsertedThenSqueezed
    /\ LET B == boxes[ret.other]
       IN /\ dim(heap, B) = 2
          /\ ~hasDegenerate(begin(heap, B), end(heap, B))
    /\ dim(heap, boxes[origin[ret.recv].recv]) = 3
    /\ ret.out = TRUE

\* C6: every box built has begin and end of one length, begin[i] <= end[i]
\* on every axis, cached index arrays that split the axes into those with
\* begin[i] = end[i] and the others, and truedim the number of the others.
C6_BoxInvariant ==
    \A k \in Slots :
        LET b == begin(heap, boxes[k])
            e == end(heap, boxes[k])
            deg == {boxes[k].ideg[j] : j \in DOMAIN boxes[k].ideg}
            nondeg == {boxes[k].inondeg[j] : j \in DOMAIN boxes[k].inondeg}
        IN /\ Len(b) = Len(e)
           /\ dim(heap, boxes[k]) = Len(b)
           /\ \A i \in 1..Len(b) : b[i] <= e[i]
           /\ deg = {i \in 0..(Len(b) - 1) : At(b, i) = At(e, i)}
           /\ nondeg = {i \in 0..(Len(b) - 1) : At(b, i) # At(e, i)}
           /\ Len(boxes[k].ideg) = Cardinality(deg)
           /\ Len(boxes[k].inondeg) = Cardinality(nondeg)
           /\ truedim(boxes[k]) = nondegCount(b, e)

\* C6 witness: a box inserted into a collapsed box, with axes of both kinds.
C6_Witness ==
    /\ Len(boxes) = 3
    /\ origin[2].op = "collapse"
    /\ origin[3].op = "insert"
    /\ origin[3].recv = 2
    /\ Len(boxes[3].ideg) >= 2
    /\ Len(boxes[3].inondeg) >= 1

\* C7: no write through what begin and end return changes a box: the arrays
\* of a box are not in the caller's hands and the cached index arrays agree
\* with begin and end in every state.
C7_AccessorsKeepStorage ==
    \A k \in Slots :
        LET b == begin(heap, boxes[k])
            e == end(heap, boxes[k])
        IN /\ boxes[k].ideg = where([i \in 1..Len(b) |-> b[i] = e[i]])
           /\ boxes[k].inondeg = where([i \in 1..Len(b) |-> b[i] # e[i]])

\* The ids of the arrays box k keeps.
storage(k) == {boxes[k].begin, boxes[k].end}

\* C8: collapse, squeeze and insert leave every existing box as it was, and
\* the arrays of a box are shared with no other box and no array of a caller.
C8_TransformsDoNotMutate ==
    /\ [][\A k \in Slots :
              /\ boxes'[k] = boxes[k]
              /\ heap'[boxes[k].begin] = heap[boxes[k].begin]
              /\ heap'[boxes[k].end] = heap[boxes[k].end]]_vars
    /\ [](\A k \in Slots :
              /\ boxes[k].begin # boxes[k].end
              /\ storage(k) \cap held = {}
              /\ \A j \in Slots \ {k} : storage(k) \cap storage(j) = {})

\* C8 witness: a collapse to the values of an array of the caller returned a
\* box that differs from its receiver, and an insert followed.
C8_Witness ==
    /\ Len(boxes) = 3
    /\ origin[2].op = "collapse"
    /\ begin(heap, boxes[2]) # begin(heap, boxes[1])
    /\ held # {}
    /\ ret.op = "insert"
    /\ ret.passed # 0

\* C9: after a successful collapse(indcs, values) the returned box has
\* begin = end = values[j] on axis indcs[j] for every j, and the receiver's
\* begin and end on every other axis.
C9_CollapseSetsListedAxes ==
    (ret.op = "collapse" /\ ret.exc = "none") =>
        LET ix == atleast_1d(ret.indcs)
            vs == atleast_1d(ret.values)
            b == begin(heap, boxes[ret.res])
            e == end(heap, boxes[ret.res])
            b0 == begin(heap, boxes[ret.recv])
            e0 == end(heap, boxes[ret.recv])
        IN /\ Len(b) = Len(b0) /\ Len(e) = Len(e0)
           /\ \A j \in 1..Len(ix) :
                  At(b, ix[j]) = vs[j] /\ At(e, ix[j]) = vs[j]
           /\ \A i \in 0..(Len(b0) - 1) :
                  (\A j \in 1..Len(ix) : ix[j] # i) =>
                      (At(b, i) = At(b0, i) /\ At(e, i) = At(e0, i))

C11_ConstructorErrors ==
    ret.op = "new" =>
        LET b == atleast_1d(ret.b)
            e == atleast_1d(ret.e)
        IN /\ (ret.exc = "ValueError: lengths do not match") <=> (Len(b) # Len(e))
           /\ (ret.exc = "ValueError: begin exceeds end") <=>
                  (Len(b) = Len(e) /\ \E i \in 1..Len(b) : gt(b[i], e[i]))
           /\ (ret.exc = "none") <=>
                  (Len(b) = Len(e) /\ ~\E i \in 1..Len(b) : gt(b[i], e[i]))

\* C11 amended: IntervalProd(begin, end) raises the length error exactly when
\* the lengths differ, the ordering error exactly when the lengths agree and
\* begin[i] <= end[i] is false for some i (begin[i] > end[i], or one of the
\* two is nan), and in every other case builds the box holding these
\* numbers; nothing is built when it raises.
C11_ConstructorErrorsOrNaN ==
    ret.op = "new" =>
        LET b == atleast_1d(ret.b)
            e == atleast_1d(ret.e)
            unordered == \E i \in 1..Len(b) :
                             b[i] = NaN \/ e[i] = NaN \/ b[i] > e[i]
        IN /\ (ret.exc = "ValueError: lengths do not match") <=> (Len(b) # Len(e))
           /\ (ret.exc = "ValueError: begin exceeds end") <=>
                  (Len(b) = Len(e) /\ unordered)
           /\ (ret.exc = "none") <=> (Len(b) = Len(e) /\ ~unordered)
           /\ ret.exc # "none" => ret.res = 0 /\ boxes = <<>> /\ heap = <<>>
           /\ ret.exc = "none" =>
                  /\ ret.res = Len(boxes)
                  /\ begin(heap, boxes[ret.res]) = b
                  /\ end(heap, boxes[ret.res]) = e

\* One constructor call built a box with a degenerate axis from a float and
\* a length-1 array.
C11_Witness ==
    /\ ret.op = "new" /\ ret.exc = "none"
    /\ ret.b.kind = "scalar" /\ ret.e.kind = "array"
    /\ begin(heap, boxes[ret.res]) = end(heap, boxes[ret.res])
    /\ dim(heap, boxes[ret.res]) = 1

\* The axes layout the claim C12 describes, axis by axis (0-based): whether
\* new is a with the m entries of o spliced in at index.
splicedAt(new, a, o, index) ==
    /\ Len(new) = Len(a) + Len(o)
    /\ \A i \in 0..(index - 1) : At(new, i) = At(a, i)
    /\ \A j \in 0..(Len(o) - 1) : At(new, index + j) = At(o, j)
    /\ \A i \in index..(Len(a) - 1) : At(new, i + Len(o)) = At(a, i)

\* C12: insert(other, index) raises IndexError unless 0 <= index <= dim;
\* otherwise, for other of dimension m, it returns a box of dimension
\* dim + m whose axes are the receiver's axes [0, index), then other's m
\* axes in order, then the receiver's axes [index, dim) - for index 0,
\* index dim and m 0 as well.
C12_InsertLayout ==
    ret.op = "insert" =>
        LET self == boxes[ret.recv]
            ob == IF ret.other = 0 THEN ret.arr ELSE begin(heap, boxes[ret.other])
            oe == IF ret.other = 0 THEN ret.arr ELSE end(heap, boxes[ret.other])
        IN IF ~(0 <= ret.index /\ ret.index <= dim(heap, self))
           THEN ret.exc = "IndexError: out of range" /\ ret.res = 0
           ELSE /\ ret.exc = "none"
                /\ ret.res = Len(boxes)
                /\ dim(heap, boxes[ret.res]) = dim(heap, self) + Len(ob)
                /\ splicedAt(begin(heap, boxes[ret.res]), begin(heap, self),
                             ob, ret.index)
                /\ splicedAt(end(heap, boxes[ret.res]), end(heap, self),
                             oe, ret.index)

\* A box of two different axes got another box's axis spliced in between.
C12_Witness ==
    /\ ret.op = "insert" /\ ret.exc = "none" /\ ret.other > 0
    /\ ret.index = 1
    /\ dim(heap, boxes[ret.recv]) = 2
    /\ dim(heap, boxes[ret.other]) = 2
    /\ begin(heap, boxes[ret.recv]) = <<0, 1>>
    /\ begin(heap, boxes[ret.other]) = <<0, 2>>
    /\ begin(heap, boxes[ret.res]) = <<0, 0, 2, 1>>
    /\ end(heap, boxes[ret.res]) = <<1, 1, 2, 2>>

\* C13: every call of uniform_sampling(num_nodes, as_midp) either raises one
\* of its four errors or forms, for every axis, the stride
\* size[i] / num_nodes[i] (as_midp true) or size[i] / (num_nodes[i] - 1)
\* (as_midp false) with a divisor that is not zero.
C13_SamplingTotal ==
    ret.op = "uniform_sampling" =>
        \/ ret.exc # "none"
        \/ LET self == boxes[ret.recv]
               nn == ret.out[1]
               st == ret.out[3]
           IN /\ Len(st) = dim(heap, self)
              /\ \A i \in 1..Len(st) :
                    /\ st[i].num = size(heap, self)[i]
                    /\ st[i].den = IF ret.as_midp THEN nn[i] ELSE nn[i] - 1
                    /\ st[i].den # 0

\* C14: equals(other, tol) is false when other is no box or a box of another
\* dimension (it does not raise and does not compare a component with
\* several axes); for a box of the same dimension it is true exactly when
\* |begin[i] - other.begin[i]| <= tol and |end[i] - other.end[i]| <= tol on
\* every axis i.
C14_EqualsNeedsSameDim ==
    ret.op = "equals" =>
        /\ ret.exc = "none"
        /\ IF ret.other = 0 THEN ret.out = FALSE
           ELSE LET b == begin(heap, boxes[ret.recv])
                    e == end(heap, boxes[ret.recv])
                    ob == begin(heap, boxes[ret.other])
                    oe == end(heap, boxes[ret.other])
                IN IF Len(b) # Len(ob) THEN ret.out = FALSE
                   ELSE ret.out = \A i \in 1..Len(b) :
                                      /\ Abs(b[i] - ob[i]) <= ret.tol
                                      /\ Abs(e[i] - oe[i]) <= ret.tol

====
